---- MODULE Spec2Model ----
(***************************************************************************)
(* Model of generate_complete_dump.py: one run of main() against a         *)
(* PostgreSQL database reached through psql (run_sql_query).  The program  *)
(* is a single sequential process; every round trip to the database is an  *)
(* issue step followed by a return step whose outcome the environment      *)
(* chooses.                                                                *)
(***************************************************************************)
EXTENDS Integers, Sequences, FiniteSets, TLC

VARIABLES
    catalog,       \* the database: the names of the base tables of schema public
    db,            \* the database: table name -> [columns, rows], for every table
                   \* the run has read so far
    prior,         \* complete_production_dump.sql before the run
    file,          \* complete_production_dump.sql now
    writes,        \* how many times the file has been opened for writing
    pc,            \* position of main()
    status,        \* "running", "returned" (main returned), "crashed" (uncaught exception)
    tables,        \* main: tables
    idx,           \* main: position of the for loop in tables
    columns,       \* main: columns
    row_count,     \* main: row_count
    dump_content,  \* main: dump_content
    trips,         \* every psql round trip so far: [kind, table, outcome]
    printed        \* everything print() wrote

vars == <<catalog, db, prior, file, writes, pc, status, tables, idx, columns,
          row_count, dump_content, trips, printed>>

(***************************************************************************)
(* Bounds                                                                  *)
(***************************************************************************)
MaxTables == 2
MaxRows == 1

(***************************************************************************)
(* Text                                                                    *)
(***************************************************************************)
NL == "\n"

LowerCase == "abcdefghijklmnopqrstuvwxyz"
UpperCase == "ABCDEFGHIJKLMNOPQRSTUVWXYZ"

\* The characters of the model's names, in code point order.
CodeOrder == "ABCDEFGHIJKLMNOPQRSTUVWXYZ_abcdefghijklmnopqrstuvwxyz"

CharAt(s, i) == SubSeq(s, i, i)

\* the upper case letter of every lower case letter
UpperOf ==
    [c \in {CharAt(LowerCase, i) : i \in 1..Len(LowerCase)} |->
        CharAt(UpperCase, CHOOSE i \in 1..Len(LowerCase) : CharAt(LowerCase, i) = c)]

\* the place of every character in the code point order
CodeOf ==
    [c \in {CharAt(CodeOrder, i) : i \in 1..Len(CodeOrder)} |->
        CHOOSE i \in 1..Len(CodeOrder) : CharAt(CodeOrder, i) = c]

\* str.upper(), one character
UpperChar(c) == IF c \in DOMAIN UpperOf THEN UpperOf[c] ELSE c

RECURSIVE Upper(_)
Upper(s) ==
    IF s = "" THEN "" ELSE UpperChar(CharAt(s, 1)) \o Upper(SubSeq(s, 2, Len(s)))

\* str.endswith
EndsWith(s, suffix) ==
    /\ Len(s) >= Len(suffix)
    /\ SubSeq(s, Len(s) - Len(suffix) + 1, Len(s)) = suffix

StartsWith(s, prefix) ==
    /\ Len(s) >= Len(prefix)
    /\ SubSeq(s, 1, Len(prefix)) = prefix

Contains(s, sub) ==
    \E i \in 1..(Len(s) - Len(sub) + 1) : SubSeq(s, i, i + Len(sub) - 1) = sub

IsSpace(c) == c \in {" ", NL}

\* str.strip()
RECURSIVE LStrip(_)
LStrip(s) ==
    IF s # "" /\ IsSpace(CharAt(s, 1)) THEN LStrip(SubSeq(s, 2, Len(s))) ELSE s

RECURSIVE RStrip(_)
RStrip(s) ==
    IF s # "" /\ IsSpace(CharAt(s, Len(s))) THEN RStrip(SubSeq(s, 1, Len(s) - 1)) ELSE s

Strip(s) == RStrip(LStrip(s))

\* str.split('\n')
Split(s) ==
    LET breaks == {i \in 1..Len(s) : CharAt(s, i) = NL}
        n == Cardinality(breaks)
        \* the position of the k-th line break; 0 and Len(s) + 1 bracket the text
        break(k) == IF k = 0 THEN 0
                    ELSE IF k = n + 1 THEN Len(s) + 1
                    ELSE CHOOSE i \in breaks : Cardinality({j \in breaks : j < i}) = k - 1
    IN [k \in 1..(n + 1) |-> SubSeq(s, break(k - 1) + 1, break(k) - 1)]

\* sep.join(parts)
RECURSIVE Join(_, _)
Join(parts, sep) ==
    IF parts = <<>> THEN ""
    ELSE IF Len(parts) = 1 THEN parts[1]
    ELSE parts[1] \o sep \o Join(Tail(parts), sep)

\* [x.strip() for x in text.split('\n') if x.strip()]
RECURSIVE StrippedNonBlank(_)
StrippedNonBlank(parts) ==
    IF parts = <<>> THEN <<>>
    ELSE IF Strip(parts[1]) # ""
         THEN <<Strip(parts[1])>> \o StrippedNonBlank(Tail(parts))
         ELSE StrippedNonBlank(Tail(parts))

NonBlankLines(text) == StrippedNonBlank(Split(text))

\* code point order of two names
RECURSIVE Less(_, _)
Less(a, b) ==
    IF a = "" THEN b # ""
    ELSE IF b = "" THEN FALSE
    ELSE IF CharAt(a, 1) = CharAt(b, 1)
         THEN Less(SubSeq(a, 2, Len(a)), SubSeq(b, 2, Len(b)))
         ELSE CodeOf[CharAt(a, 1)] < CodeOf[CharAt(b, 1)]

(***************************************************************************)
(* The database behind psql                                                *)
(***************************************************************************)
TableNames == {"Sessions", "sessions", "user_sessions"}

ColumnLists == {<<>>, <<"id", "name">>, <<"created_at">>, <<"note::text">>}

\* SQL values: NULL, or a text
SqlNull == [isnull |-> TRUE, text |-> ""]
SqlText(s) == [isnull |-> FALSE, text |-> s]
SqlValues == {SqlNull, SqlText("a")}

SeqsUpTo(S, n) == UNION {[1..k -> S] : k \in 0..n}

TableShapes ==
    UNION {[columns : {cl}, rows : SeqsUpTo([1..Len(cl) -> SqlValues], MaxRows)]
           : cl \in ColumnLists}

EmptyTable == [columns |-> <<>>, rows |-> <<>>]

Catalogs == {N \in SUBSET TableNames : Cardinality(N) <= MaxTables}

\* the database with the contents of one more table known
WithTable(d, table, shape) ==
    [n \in DOMAIN d \cup {table} |-> IF n = table THEN shape ELSE d[n]]

\* ORDER BY on names (code point collation)
RECURSIVE SortNames(_)
SortNames(S) ==
    IF S = {} THEN <<>>
    ELSE LET least == CHOOSE a \in S : \A b \in S \ {a} : Less(a, b)
         IN <<least>> \o SortNames(S \ {least})

\* quote_literal(v)
quote_literal(v) ==
    IF v.isnull THEN SqlNull ELSE SqlText("'" \o v.text \o "'")

\* v::text (every value of the model is a text already)
CastText(v) == v

\* COALESCE(a, b)
Coalesce(a, b) == IF a.isnull THEN b ELSE a

\* a || b
Concat(a, b) ==
    IF a.isnull \/ b.isnull THEN SqlNull ELSE SqlText(a.text \o b.text)

\* psql -t: one line per result row, each value after a blank, NULL as
\* nothing, and an empty line after the last row
RECURSIVE PsqlRows(_)
PsqlRows(values) ==
    IF values = <<>> THEN ""
    ELSE " " \o (IF values[1].isnull THEN "" ELSE values[1].text) \o NL
         \o PsqlRows(Tail(values))

PsqlOutput(values) == PsqlRows(values) \o NL

MapSeq(Op(_), s) == [i \in 1..Len(s) |-> Op(s[i])]

(***************************************************************************)
(* run_sql_query                                                           *)
(***************************************************************************)
\* What a round trip can do: psql exits 0, psql exits non-zero
\* (CalledProcessError), or subprocess.run raises something else (psql cannot
\* be launched: FileNotFoundError, OSError).
Outcomes == {"ok", "failed", "raised"}

None == [none |-> TRUE, text |-> ""]
Str(s) == [none |-> FALSE, text |-> s]

\* run_sql_query returning the error text instead of None
run_sql_query_error_text(outcome, stdout) ==
    IF outcome = "ok" THEN [none |-> FALSE, text |-> Strip(stdout)]
    ELSE [none |-> FALSE, text |-> "psql: error"]

\* the value run_sql_query returns when it returns
run_sql_query(outcome, stdout) ==
    IF outcome = "ok" THEN Str(Strip(stdout)) ELSE None

\* what run_sql_query prints
QueryPrints(outcome) ==
    IF outcome = "failed" THEN <<"Error running query", "stderr">> ELSE <<>>

\* `if result is not None` in place of `if result`
TruthyNotNone(result) == ~result.none

\* Python truth of a query result: `if result`
Truthy(result) == ~result.none /\ result.text # ""

(***************************************************************************)
(* The queries                                                             *)
(***************************************************************************)
\* tables_query
TablesStdout(names) == PsqlOutput(MapSeq(SqlText, SortNames(names)))

\* columns_query
ColumnsStdout(d, table) == PsqlOutput(MapSeq(SqlText, d[table].columns))

\* count_query
CountStdout(d, table) == PsqlOutput(<<SqlText(ToString(Len(d[table].rows)))>>)

\* generate_insert_statements: the expression chosen for one column
DirectColumns == {"id", "created_at", "updated_at"}

IsDirect(col) == EndsWith(col, "::text") \/ col \in DirectColumns

ColumnExpr(col) ==
    IF IsDirect(col)
    THEN [form |-> "quote_literal", col |-> col]
    ELSE [form |-> "coalesce", col |-> col]

column_list(cols) == MapSeq(ColumnExpr, cols)

\* the value of a column of a row
ColumnValue(d, table, row, col) ==
    LET cl == d[table].columns
    IN row[CHOOSE i \in 1..Len(cl) : cl[i] = col]

\* the database's value of one expression of column_list on one row
EvalExpr(d, table, row, e) ==
    IF e.form = "quote_literal"
    THEN quote_literal(ColumnValue(d, table, row, e.col))
    ELSE Coalesce(quote_literal(CastText(ColumnValue(d, table, row, e.col))),
                  SqlText("NULL"))

\* e1 || ',' || e2 || ',' || ...
RECURSIVE JoinedLiterals(_)
JoinedLiterals(vals) ==
    IF vals = <<>> THEN SqlText("")
    ELSE IF Len(vals) = 1 THEN vals[1]
    ELSE Concat(Concat(vals[1], SqlText(",")), JoinedLiterals(Tail(vals)))

\* insert_statement of one row
InsertStatement(d, table, row, exprs) ==
    Concat(Concat(SqlText("INSERT INTO " \o table \o " VALUES ("),
                  JoinedLiterals([i \in 1..Len(exprs) |->
                                     EvalExpr(d, table, row, exprs[i])])),
           SqlText(");"))

\* the insert query's output
InsertsStdout(d, table, cols) ==
    LET exprs == column_list(cols)
    IN PsqlOutput([r \in 1..Len(d[table].rows) |->
                      InsertStatement(d, table, d[table].rows[r], exprs)])

(***************************************************************************)
(* main                                                                    *)
(***************************************************************************)
Excluded == "sessions"

\* the skip with the name misspelt
IsExcludedMisspelt(table) == table = "session"

\* line 76: the table the loop skips
IsExcluded(table) == table = Excluded

Rule == "-- ============================================================================"

Header ==
    << "-- COMPLETE PRODUCTION DATABASE DUMP",
       "-- Generated: August 27, 2025",
       "-- Contains ALL production data",
       "",
       "-- Disable foreign key checks for import",
       "SET session_replication_role = replica;",
       "" >>

Footer ==
    << Rule,
       "-- Re-enable foreign key checks",
       Rule,
       "SET session_replication_role = DEFAULT;",
       "",
       "-- Import complete! All production data has been restored." >>

\* lines 100-102
BannerLine(table, count) == "-- " \o Upper(table) \o " (" \o count \o " records)"

Banner(table, count) == <<Rule, BannerLine(table, count), Rule>>

\* line 98 with another default
RowCountUnknown(count_result) ==
    IF Truthy(count_result) THEN Strip(count_result.text) ELSE "unknown"

\* line 98
RowCount(count_result) ==
    IF Truthy(count_result) THEN Strip(count_result.text) ELSE "0"

\* lines 106-109 without the two emptiness tests
StatementLinesUnfiltered(insert_statements) ==
    IF insert_statements.none THEN <<>> ELSE Split(insert_statements.text)

\* lines 106-109
StatementLines(insert_statements) ==
    IF Truthy(insert_statements) THEN NonBlankLines(insert_statements.text) ELSE <<>>

\* line 125
FileText(lines) == Join(lines, NL)

Absent == [exists |-> FALSE, text |-> ""]
Present(text) == [exists |-> TRUE, text |-> text]
PriorFiles == {Absent, Present("-- an earlier dump")}

Trip(kind, table) == [kind |-> kind, table |-> table, outcome |-> "pending"]

\* the last round trip returns with an outcome
Returned(outcome) == [trips EXCEPT ![Len(trips)].outcome = outcome]

Init ==
    /\ catalog \in Catalogs
    /\ db = <<>>
    /\ prior \in PriorFiles
    /\ file = prior
    /\ writes = 0
    /\ pc = "start"
    /\ status = "running"
    /\ tables = <<>>
    /\ idx = 0
    /\ columns = <<>>
    /\ row_count = ""
    /\ dump_content = <<>>
    /\ trips = <<>>
    /\ printed = <<>>

\* an exception nothing catches leaves main
Crash ==
    /\ status' = "crashed"
    /\ pc' = "done"

\* line 56: the table list is asked for
ListTables ==
    /\ pc = "start"
    /\ trips' = Append(trips, Trip("tables", ""))
    /\ pc' = "wait_tables"
    /\ UNCHANGED <<catalog, db, prior, file, writes, status, tables, idx, columns,
                   row_count, dump_content, printed>>

\* lines 56-72: the table list returns
TablesReturn(outcome) ==
    /\ pc = "wait_tables"
    /\ trips' = Returned(outcome)
    /\ LET tables_result == run_sql_query(outcome, TablesStdout(catalog))
       IN IF outcome = "raised"
          THEN /\ Crash
               /\ UNCHANGED <<tables, idx, dump_content, printed>>
          ELSE IF ~Truthy(tables_result)
          THEN /\ printed' = printed \o QueryPrints(outcome)
                                \o <<"Failed to get table list">>
               /\ status' = "returned"
               /\ pc' = "done"
               /\ UNCHANGED <<tables, idx, dump_content>>
          ELSE /\ printed' = printed \o QueryPrints(outcome)
               /\ tables' = NonBlankLines(tables_result.text)
               /\ dump_content' = Header
               /\ idx' = 1
               /\ pc' = "loop"
               /\ UNCHANGED status
    /\ UNCHANGED <<catalog, db, prior, file, writes, columns, row_count>>

\* lines 75-77: the sessions table is skipped
SkipExcluded ==
    /\ pc = "loop"
    /\ idx <= Len(tables)
    /\ IsExcluded(tables[idx])
    /\ idx' = idx + 1
    /\ UNCHANGED <<catalog, db, prior, file, writes, pc, status, tables, columns,
                   row_count, dump_content, trips, printed>>

\* lines 79-89: the columns of the next table are asked for
AskColumns ==
    /\ pc = "loop"
    /\ idx <= Len(tables)
    /\ ~IsExcluded(tables[idx])
    /\ printed' = Append(printed, "Processing table: " \o tables[idx])
    /\ trips' = Append(trips, Trip("columns", tables[idx]))
    /\ pc' = "wait_columns"
    /\ UNCHANGED <<catalog, db, prior, file, writes, status, tables, idx, columns,
                   row_count, dump_content>>

\* lines 89-97: the columns return (on success the database shows the table as
\* it is, shape); the row count is asked for
ColumnsReturn(outcome, shape) ==
    /\ pc = "wait_columns"
    /\ db' = IF outcome = "ok" THEN WithTable(db, tables[idx], shape) ELSE db
    /\ LET columns_result ==
               IF outcome = "ok"
               THEN run_sql_query(outcome, ColumnsStdout(db', tables[idx]))
               ELSE None
       IN IF outcome = "raised"
          THEN /\ Crash
               /\ trips' = Returned(outcome)
               /\ UNCHANGED <<idx, columns, printed>>
          ELSE IF ~Truthy(columns_result)
          THEN /\ printed' = printed \o QueryPrints(outcome)
               /\ trips' = Returned(outcome)
               /\ idx' = idx + 1
               /\ pc' = "loop"
               /\ UNCHANGED <<status, columns>>
          ELSE /\ printed' = printed \o QueryPrints(outcome)
               /\ columns' = NonBlankLines(columns_result.text)
               /\ trips' = Append(Returned(outcome), Trip("count", tables[idx]))
               /\ pc' = "wait_count"
               /\ UNCHANGED <<status, idx>>
    /\ UNCHANGED <<catalog, prior, file, writes, tables, row_count, dump_content>>

\* lines 97-105, 25-42: the row count returns; the banner is appended and the
\* INSERT statements are asked for
CountReturn(outcome) ==
    /\ pc = "wait_count"
    /\ LET count_result == run_sql_query(outcome, CountStdout(db, tables[idx]))
       IN IF outcome = "raised"
          THEN /\ Crash
               /\ trips' = Returned(outcome)
               /\ UNCHANGED <<row_count, dump_content, printed>>
          ELSE /\ row_count' = RowCount(count_result)
               /\ dump_content' = dump_content \o Banner(tables[idx], row_count')
               /\ printed' = printed \o QueryPrints(outcome)
                    \o <<"Generating INSERT statements for " \o tables[idx] \o "...">>
               /\ trips' = Append(Returned(outcome), Trip("inserts", tables[idx]))
               /\ pc' = "wait_inserts"
               /\ UNCHANGED status
    /\ UNCHANGED <<catalog, db, prior, file, writes, tables, idx, columns>>

\* InsertsReturn writing the file after every table
InsertsReturnFlushing(outcome) ==
    /\ pc = "wait_inserts"
    /\ trips' = Returned(outcome)
    /\ LET insert_statements ==
               run_sql_query(outcome, InsertsStdout(db, tables[idx], columns))
       IN IF outcome = "raised"
          THEN /\ Crash
               /\ UNCHANGED <<idx, dump_content, printed, file, writes>>
          ELSE /\ dump_content' = dump_content \o StatementLines(insert_statements)
                                      \o <<"">>
               /\ file' = Present(FileText(dump_content'))
               /\ writes' = writes + 1
               /\ printed' = printed \o QueryPrints(outcome)
               /\ idx' = idx + 1
               /\ pc' = "loop"
               /\ UNCHANGED status
    /\ UNCHANGED <<catalog, db, prior, tables, columns, row_count>>

\* lines 42, 105-111: the INSERT statements return and are appended
InsertsReturn(outcome) ==
    /\ pc = "wait_inserts"
    /\ trips' = Returned(outcome)
    /\ LET insert_statements ==
               run_sql_query(outcome, InsertsStdout(db, tables[idx], columns))
       IN IF outcome = "raised"
          THEN /\ Crash
               /\ UNCHANGED <<idx, dump_content, printed>>
          ELSE /\ dump_content' = dump_content \o StatementLines(insert_statements)
                                      \o <<"">>
               /\ printed' = printed \o QueryPrints(outcome)
               /\ idx' = idx + 1
               /\ pc' = "loop"
               /\ UNCHANGED status
    /\ UNCHANGED <<catalog, db, prior, file, writes, tables, columns, row_count>>

\* lines 113-121: the loop is over; the footer is appended
AddFooter ==
    /\ pc = "loop"
    /\ idx > Len(tables)
    /\ dump_content' = dump_content \o Footer
    /\ pc' = "write"
    /\ UNCHANGED <<catalog, db, prior, file, writes, status, tables, idx, columns,
                   row_count, trips, printed>>

\* lines 124-127: the file is written
WriteFile ==
    /\ pc = "write"
    /\ file' = Present(FileText(dump_content))
    /\ writes' = writes + 1
    /\ printed' = Append(printed,
           "Complete production dump generated: complete_production_dump.sql")
    /\ status' = "returned"
    /\ pc' = "done"
    /\ UNCHANGED <<catalog, db, prior, tables, idx, columns, row_count, dump_content, trips>>

\* line 124: open() raises (the directory is not writable)
WriteFails ==
    /\ pc = "write"
    /\ Crash
    /\ UNCHANGED <<catalog, db, prior, file, writes, tables, idx, columns, row_count,
                   dump_content, trips, printed>>

Next ==
    \/ ListTables
    \/ \E o \in Outcomes : TablesReturn(o)
    \/ SkipExcluded
    \/ AskColumns
    \/ \E shape \in TableShapes : ColumnsReturn("ok", shape)
    \/ \E o \in Outcomes \ {"ok"} : ColumnsReturn(o, EmptyTable)
    \/ \E o \in Outcomes : CountReturn(o)
    \/ \E o \in Outcomes : InsertsReturn(o)
    \/ AddFooter
    \/ WriteFile
    \/ WriteFails

Spec == Init /\ [][Next]_vars

(***************************************************************************)
(* Reading the written file and the log of round trips                     *)
(***************************************************************************)
Written == writes > 0

\* The lines of the file, Split(file.text).  Splitting the join of lines that
\* hold no line break gives the lines back, so when the file holds the join of
\* dump_content the split is not computed again; C9 checks the split itself.
FileLines ==
    IF file.text = FileText(dump_content) THEN dump_content ELSE Split(file.text)

IsBannerLine(l) == StartsWith(l, "-- ") /\ EndsWith(l, " records)")

IsInsertLine(l) == StartsWith(l, "INSERT INTO ")

\* where " (" opens the count of a banner line
CountAt(l) == CHOOSE i \in 1..Len(l) : SubSeq(l, i, i + 1) = " ("

\* "-- <NAME> (<count> records)"
BannerName(l) == SubSeq(l, 4, CountAt(l) - 1)
BannerCount(l) == SubSeq(l, CountAt(l) + 2, Len(l) - Len(" records)"))

\* the positions of the banner lines among lines
BannerAt(lines) == {i \in 1..Len(lines) : IsBannerLine(lines[i])}

\* the positions of the banner lines of table t
BannersOf(lines, t) == {i \in BannerAt(lines) : BannerName(lines[i]) = Upper(t)}

\* the positions of the INSERT lines of the section whose banner is at i
InsertsOfSection(lines, i) ==
    {j \in (i + 1)..Len(lines) :
        /\ IsInsertLine(lines[j])
        /\ \A k \in (i + 1)..j : ~IsBannerLine(lines[k])}

\* the lines between the banner at i and the blank line that ends its section
SectionBody(lines, i) ==
    LET end == CHOOSE k \in (i + 2)..Len(lines) :
                   lines[k] = "" /\ \A j \in (i + 2)..(k - 1) : lines[j] # ""
    IN SubSeq(lines, i + 2, end - 1)

\* the tables of the catalog other than the one named sessions
Included == catalog \ {Excluded}

\* the table a banner line stands for
TableOfBanner(l) == CHOOSE t \in Included : Upper(t) = BannerName(l)

TripOk(kind, t) ==
    \E i \in 1..Len(trips) :
        trips[i] = [kind |-> kind, table |-> t, outcome |-> "ok"]

\* a per-table round trip that did not return a result
TripBroken(i) == trips[i].kind # "tables" /\ trips[i].outcome \in {"failed", "raised"}

\* the column lookup of t returned at least one column
ColumnsFound(t) == TripOk("columns", t) /\ db[t].columns # <<>>

Outstanding == {i \in 1..Len(trips) : trips[i].outcome = "pending"}

IsPrefix(a, b) == Len(a) <= Len(b) /\ SubSeq(b, 1, Len(a)) = a

HeaderText == Join(Header, NL)
FooterText == Join(Footer, NL)

\* the statement of a row with every NULL written as the keyword NULL
RECURSIVE Literals(_)
Literals(row) ==
    IF row = <<>> THEN ""
    ELSE (IF row[1].isnull THEN "NULL" ELSE "'" \o row[1].text \o "'")
         \o (IF Len(row) > 1 THEN "," ELSE "") \o Literals(Tail(row))

ExpectedStatement(t, row) == "INSERT INTO " \o t \o " VALUES (" \o Literals(row) \o ");"

(***************************************************************************)
(* Claims                                                                  *)
(***************************************************************************)

\* C1 (as stated): in the written output every table other than sessions has
\* exactly one banner, whatever its round trips did, and the banners are in
\* ascending order of table name.
C1_EveryTableOnce ==
    Written =>
        LET lines == FileLines
        IN /\ \A t \in Included : Cardinality(BannersOf(lines, t)) = 1
           /\ \A i, j \in BannerAt(lines) :
                 i < j => Less(TableOfBanner(lines[i]), TableOfBanner(lines[j]))

\* C1 (amended): in the written output a table other than sessions has exactly
\* one banner when its column lookup returned columns and none when that
\* lookup failed or returned nothing; there is no other banner, and the
\* banners are in ascending order of table name.
C1_FoundTablesOnceInOrder ==
    Written =>
        LET lines == FileLines
        IN /\ \A t \in Included :
                 Cardinality(BannersOf(lines, t)) = IF ColumnsFound(t) THEN 1 ELSE 0
           /\ BannerAt(lines) = UNION {BannersOf(lines, t) : t \in Included}
           /\ \A i, j \in BannerAt(lines) :
                 i < j => Less(TableOfBanner(lines[i]), TableOfBanner(lines[j]))

\* C1 witness: a written output with the sections of two tables.
C1_TwoSections == Written /\ Cardinality(BannerAt(FileLines)) = 2

\* C2 (as stated): a run whose table listing did not fail ends with the file
\* written, beginning with the header and ending with the footer; with zero
\* tables the file is the header directly followed by the footer.
C2_ListedRunWritesFile ==
    (pc = "done" /\ trips[1].outcome = "ok") =>
        /\ Written
        /\ StartsWith(file.text, HeaderText)
        /\ EndsWith(file.text, FooterText)
        /\ catalog = {} => file.text = HeaderText \o NL \o FooterText

\* C3: when the table listing fails, no other round trip is issued and the
\* output file stays as it was before the run (absent, or its old contents).
C3_ListingFailureLeavesFile ==
    (trips # <<>> /\ trips[1].outcome \in {"failed", "raised"}) =>
        /\ Len(trips) = 1
        /\ pc = "done"
        /\ writes = 0
        /\ file = prior

\* C3 witness: the listing failed while an earlier dump existed, and the run is over.
C3_ListingFailed ==
    /\ pc = "done"
    /\ trips[1].outcome = "failed"
    /\ prior.exists

\* C4 (as stated): in the written output, every row with a NULL column of every
\* table whose INSERT statements were fetched has its statement, with NULL
\* written as the keyword NULL.
C4_NullRowsHaveStatement ==
    Written =>
        LET lines == FileLines
        IN \A t \in Included :
               TripOk("inserts", t) =>
                   \A r \in 1..Len(db[t].rows) :
                       (\E c \in 1..Len(db[t].rows[r]) : db[t].rows[r][c].isnull) =>
                           \E j \in 1..Len(lines) :
                               lines[j] = ExpectedStatement(t, db[t].rows[r])

\* C5 (as stated): the name sessions appears in no banner line (banners are
\* upper case) and in no INSERT line of the written output, and no round trip
\* is issued for it.
C5_NameNeverAppears ==
    /\ \A i \in 1..Len(trips) : trips[i].table # Excluded
    /\ Written =>
          LET lines == FileLines
          IN \A j \in 1..Len(lines) :
                 /\ IsBannerLine(lines[j]) => ~Contains(lines[j], Upper(Excluded))
                 /\ IsInsertLine(lines[j]) => ~Contains(lines[j], Excluded)

\* C5 (amended): the table named exactly sessions gets no round trip, no INSERT
\* line and no banner: every banner of the written output belongs to a dumped
\* table with another name, one banner each.
C5_TableNeverDumped ==
    /\ \A i \in 1..Len(trips) : trips[i].table # Excluded
    /\ Written =>
          LET lines == FileLines
          IN /\ \A j \in 1..Len(lines) :
                   ~StartsWith(lines[j], "INSERT INTO " \o Excluded \o " ")
             /\ \A i \in BannerAt(lines) :
                   \E t \in Included :
                       ColumnsFound(t) /\ BannerName(lines[i]) = Upper(t)
             /\ Cardinality(BannerAt(lines))
                   = Cardinality({t \in Included : ColumnsFound(t)})

\* C5 witness: the catalog holds sessions and the output has another table's section.
C5_SessionsBesideDumped ==
    Written /\ Excluded \in catalog /\ BannerAt(FileLines) # {}

\* C6: the section of a table with zero rows is the three banner lines, one
\* blank line, and then the next section or the footer: no INSERT line.
C6_EmptyTableSection ==
    Written =>
        LET lines == FileLines
        IN \A t \in Included : \A i \in BannersOf(lines, t) :
               (t \in DOMAIN db /\ db[t].rows = <<>>) =>
                   /\ lines[i - 1] = Rule
                   /\ lines[i] = "-- " \o Upper(t) \o " (" \o BannerCount(lines[i])
                                    \o " records)"
                   /\ lines[i + 1] = Rule
                   /\ lines[i + 2] = ""
                   /\ lines[i + 3] = Rule
                   /\ InsertsOfSection(lines, i) = {}

\* C6 witness: a written output with the section of a table that has no rows.
C6_EmptyTableDumped ==
    /\ Written
    /\ \E t \in Included :
          t \in DOMAIN db /\ db[t].rows = <<>> /\ BannersOf(FileLines, t) # {}

\* C7 (as stated): a per-table round trip that fails never aborts the run: the
\* run returns, every table has been taken up, and the file is written with the
\* footer.
C7_FailureNeverAborts ==
    (pc = "done" /\ \E i \in 1..Len(trips) : TripBroken(i)) =>
        /\ status = "returned"
        /\ \A t \in Included :
              \E i \in 1..Len(trips) : trips[i].kind = "columns" /\ trips[i].table = t
        /\ Written
        /\ EndsWith(file.text, FooterText)

\* C8 (as stated): no failure ends the run with an uncaught error.
C8_NeverCrashes == status # "crashed"

\* C9: dump_content only grows by appending, at most one round trip is
\* outstanding, and the file is written at most once and only when every round
\* trip has returned and the loop is over, with the lines of dump_content;
\* until then it is as before the run.
C9_AppendOnlyWrittenOnceAtEnd ==
    /\ [][IsPrefix(dump_content, dump_content')]_vars
    /\ [](/\ Cardinality(Outstanding) <= 1
          /\ writes <= 1
          /\ (pc # "done" \/ ~Written) => file = prior
          /\ Written => /\ Outstanding = {}
                        /\ idx > Len(tables)
                        /\ pc = "done"
                        /\ file = Present(FileText(dump_content))
                        /\ Split(file.text) = dump_content)

\* C9 witness: the file is written after the round trips of a table.
C9_WrittenAfterTrips == Written /\ Len(trips) >= 4

\* C10 (as stated): in every section the count of the banner is the number of
\* INSERT lines of the section.
C10_CountIsStatements ==
    Written =>
        LET lines == FileLines
        IN \A i \in BannerAt(lines) :
               BannerCount(lines[i]) = ToString(Cardinality(InsertsOfSection(lines, i)))

\* C10 (amended): in every section the banner shows the table's row count when
\* the count round trip succeeded and 0 when it failed; the lines between the
\* banner and the blank line are the non-blank lines the insert round trip
\* returned, all of them INSERT lines, and none when it failed.
C10_CountAndStatementsFromTrips ==
    Written =>
        LET lines == FileLines
        IN \A t \in Included : \A i \in BannersOf(lines, t) :
               /\ t \in DOMAIN db
               /\ BannerCount(lines[i]) =
                     IF TripOk("count", t) THEN ToString(Len(db[t].rows)) ELSE "0"
               /\ SectionBody(lines, i) =
                     IF TripOk("inserts", t)
                     THEN NonBlankLines(InsertsStdout(db, t, db[t].columns))
                     ELSE <<>>
               /\ Len(SectionBody(lines, i)) = Cardinality(InsertsOfSection(lines, i))

\* C10 witness: a section whose banner shows 0 above an INSERT line.
C10_ZeroAboveStatement ==
    /\ Written
    /\ LET lines == FileLines
       IN \E i \in BannerAt(lines) :
              BannerCount(lines[i]) = "0" /\ InsertsOfSection(lines, i) # {}

====
